---- MODULE Spec2Model ----
(***************************************************************************)
(* Model of telegram_notifications.py: the render-progress tracker         *)
(* (CURRENT_RENDERS, SESSION_RENDERS) and the message protocol that        *)
(* on_render_event drives from the host's PreRender / PostFrame /          *)
(* PostRender callbacks.                                                   *)
(*                                                                         *)
(* Units.  Time is counted in whole seconds.  Frame numbers are floats in  *)
(* the host (a ROP may step by fractions of a frame); the model counts     *)
(* them in halves of a frame, so 2 is frame 1.0, 3 is frame 1.5, 4 is      *)
(* frame 2.0.  int() of such a value is PyInt.                             *)
(*                                                                         *)
(* None is modelled as 0 where the code only tests truthiness              *)
(* (message_id: Telegram message ids are positive).                        *)
(***************************************************************************)
EXTENDS Integers, Sequences, FiniteSets, TLC

\* ---------------------------------------------------------------- bounds
MaxTime == 4          \* the clock runs from 0 to MaxTime seconds
MaxFrameTime == 3     \* PostFrame frame times are 2..MaxFrameTime (halves)
MaxRenders == 2       \* renders the host starts per node
MaxFrameEvents == 2   \* PostFrame events the host delivers per render
MaxMsgId == 1         \* message ids the chat API hands out: 1..MaxMsgId

\* ------------------------------------------------------- program constants
update_interval == 2  \* initialize_render_state: 'update_interval': 2.0
TimesWindow == 10     \* update_render_stats: len(times) > 10

Nodes == {"n1", "n2"}                 \* paths of the render nodes of the scene
FrameTimes == 2..MaxFrameTime
MsgIds == 1..MaxMsgId
\* CHAT_ID as load_config leaves it.  Every configuration this program
\* writes has the key CHAT_IDS, a list (lines 28-32, 930-933); a scalar comes
\* only from a hand-written file with the key CHAT_ID.
ChatConfigs == { [list |-> TRUE, ids |-> <<"a", "b">>] }
ChatIds == {"a", "b"}

VARIABLES
    NOTIFICATIONS_ENABLED,  \* module global, line 14
    SESSION_RENDERS,        \* module global, line 15: node path -> stats
    CURRENT_RENDERS,        \* module global, line 16: node path -> render state
    CALLBACK_REGISTRY,      \* module global, line 17
    CHAT_ID,                \* module global, line 41
    BOT_TOKEN,              \* module global, line 40
    CONFIG_FILE,            \* the content of telegram_config.json
    now,                    \* datetime.now(), seconds
    scene,                  \* host: the render nodes of the scene
    hostRender,             \* host: node -> number of its render in progress, 0 if none
    hostStarted,            \* host: node -> renders started so far
    hostFrames,             \* host: node -> PostFrame events of the render in progress
    audit,                  \* observer: tracked node path -> history of its entry
    ops,                    \* HTTP requests made by the last handler invocation
    last                    \* what the last step was and what it decided

vars == <<NOTIFICATIONS_ENABLED, SESSION_RENDERS, CURRENT_RENDERS, CALLBACK_REGISTRY,
          CHAT_ID, BOT_TOKEN, CONFIG_FILE, now, scene, hostRender, hostStarted,
          hostFrames, audit, ops, last>>

\* ---------------------------------------------------------------- helpers
Range(s) == { s[i] : i \in 1..Len(s) }

Max(a, b) == IF a >= b THEN a ELSE b

\* int(x) of a value counted in halves: truncation toward zero
PyInt(h) == IF h >= 0 THEN h \div 2 ELSE -((-h) \div 2)

\* Without, were the whole dictionary cleared (d.clear())
WithoutClear(d, k) == [x \in {} |-> d[x]]

\* dict without a key (del d[k])
Without(d, k) == [x \in (DOMAIN d) \ {k} |-> d[x]]

\* dict with d[k] = v
With(d, k, v) == [x \in (DOMAIN d) \cup {k} |-> IF x = k THEN v ELSE d[x]]

Op(kind, text, chat, mid, res) ==
    [kind |-> kind, text |-> text, chat |-> chat, mid |-> mid, res |-> res]

NoLast == [event |-> "none", node |-> "none", result |-> "none", outcome |-> "none",
           frame |-> 0, frames |-> 0, total |-> 0, msgid |-> 0, distinct |-> 0,
           reported |-> FALSE, gap |-> 0, elapsed |-> 0,
           pctNum |-> 0, pctDen |-> 1, remNum |-> 0, remDen |-> 1,
           shownTotal |-> 0]

\* ------------------------------------------------------------ HTTP layer
\* The for-loop of send_telegram_message over a list CHAT_ID, from index i:
\* it returns at the first post whose response is ok; a post that raises is
\* logged and the loop goes on; a response that is not ok goes on as well.
RECURSIVE SendToList(_, _, _, _, _)
SendToList(ids, i, text, net, mid) ==
    IF i > Len(ids)
    THEN [ops |-> <<>>, id |-> 0]
    ELSE IF net[ids[i]] = "ok"
         THEN [ops |-> <<Op("sendMessage", text, ids[i], mid, "ok")>>, id |-> mid]
         ELSE LET rest == SendToList(ids, i + 1, text, net, mid)
              IN  [ops |-> <<Op("sendMessage", text, ids[i], 0, net[ids[i]])>> \o rest.ops,
                   id |-> rest.id]

\* send_telegram_message(message): the requests it makes and the message id
\* it returns (0 for None).  net is the outcome of a post to each chat, mid
\* the id the API gives a created message.
send_telegram_message(text, chat, net, mid) ==
    IF chat.list
    THEN SendToList(chat.ids, 1, text, net, mid)
    ELSE LET r == net[chat.ids[1]]
         IN  [ops |-> <<Op("sendMessage", text, chat.ids[1], IF r = "ok" THEN mid ELSE 0, r)>>,
              id |-> IF r = "ok" THEN mid ELSE 0]

\* requests.post(.../editMessageText, data={chat_id: CHAT_ID, message_id, text}):
\* the whole CHAT_ID value is passed; the response is not looked at.
EditMessage(text, message_id, editRaises) ==
    Op("editMessageText", text, "CHAT_ID", message_id,
       IF editRaises THEN "raise" ELSE "returned")

\* if state['message_id']: edit, except: send   [else: send]
\* withElse says whether the branch has the else: send_telegram_message.
EditOrSend(text, message_id, withElse, chat, net, mid, editRaises) ==
    IF message_id # 0
    THEN <<EditMessage(text, message_id, editRaises)>>
         \o (IF editRaises THEN send_telegram_message(text, chat, net, mid).ops ELSE <<>>)
    ELSE IF withElse THEN send_telegram_message(text, chat, net, mid).ops ELSE <<>>

\* ------------------------------------------------------------ host calls
\* get_node_name(node): node.name(), and node.path() when that raises.
\* TRUE when the call raises.
get_node_name_raises(h) == h.name /\ h.path

\* get_sequence_range(node): (1, 1) when there is no trange parameter
\* (trange = -1), when it evaluates to 0, or when anything raises.
get_sequence_range(h, trange, f1, f2) ==
    IF h.parm \/ trange = -1 \/ trange = 0 THEN <<2, 2>> ELSE <<f1, f2>>

\* ------------------------------------------------------------ statistics
\* update_render_stats, were every render counted as one frame (the default
\* frame_count=1)
update_render_stats_one_frame(sr, node_path, render_time, frame_count) ==
    LET s0 == IF node_path \in DOMAIN sr
              THEN sr[node_path]
              ELSE [times |-> <<>>, total_renders |-> 0, frames_rendered |-> 0,
                    total_time |-> 0]
        t1 == Append(s0.times, render_time)
    IN  With(sr, node_path,
             [times |-> IF Len(t1) > TimesWindow THEN Tail(t1) ELSE t1,
              total_renders |-> s0.total_renders + 1,
              frames_rendered |-> s0.frames_rendered + 1,
              total_time |-> s0.total_time + render_time])

update_render_stats(sr, node_path, render_time, frame_count) ==
    LET s0 == IF node_path \in DOMAIN sr
              THEN sr[node_path]
              ELSE [times |-> <<>>, total_renders |-> 0, frames_rendered |-> 0,
                    total_time |-> 0]
        t1 == Append(s0.times, render_time)
    IN  With(sr, node_path,
             [times |-> IF Len(t1) > TimesWindow THEN Tail(t1) ELSE t1,
              total_renders |-> s0.total_renders + 1,
              frames_rendered |-> s0.frames_rendered + frame_count,
              total_time |-> s0.total_time + render_time])

\* format_time(seconds) of the non-negative fraction num / den: hours,
\* minutes and seconds, each cut to an integer
format_time(num, den) ==
    LET whole == num \div den
    IN  [hours |-> whole \div 3600, minutes |-> (whole % 3600) \div 60, secs |-> whole % 60]

\* get_render_stats(node_path): none stands for the return value None
get_render_stats(sr, node_path) ==
    IF node_path \notin DOMAIN sr \/ sr[node_path].times = <<>>
    THEN [none |-> TRUE, average |-> format_time(0, 1), total_renders |-> 0,
          last_render |-> format_time(0, 1)]
    ELSE LET stats        == sr[node_path]
             total_frames == stats.frames_rendered
             total_time   == stats.total_time
         IN  [none |-> FALSE,
              average |-> IF total_frames > 0 THEN format_time(total_time, total_frames)
                          ELSE format_time(0, 1),
              total_renders |-> stats.total_renders,
              last_render |-> format_time(stats.times[Len(stats.times)], 1)]

\* ----------------------------------------------------------- render state
initialize_render_state(rng, t) ==
    [start_time |-> t,
     message_id |-> 0,
     completed_frames |-> {},
     total_frames |-> PyInt(rng[2] - rng[1] + 2),
     start_frame |-> PyInt(rng[1]),
     end_frame |-> PyInt(rng[2]),
     last_update_time |-> t,
     update_interval |-> update_interval]

\* AddFrame, were the set replaced by the last frame seen
AddFrameLastOnly(completed_frames, frame_time) == {frame_time}

\* state['completed_frames'].add(float(frame_time)); float() of the host's
\* float is that float
AddFrame(completed_frames, frame_time) == completed_frames \cup {frame_time}

\* should_update_progress, were last_update_time not stored
should_update_progress_no_store(state, t) ==
    [ret |-> t - state.last_update_time >= state.update_interval, state |-> state]

\* should_update_progress(state) at time t: the value returned and the
\* state it leaves
should_update_progress(state, t) ==
    IF t - state.last_update_time >= state.update_interval
    THEN [ret |-> TRUE, state |-> [state EXCEPT !.last_update_time = t]]
    ELSE [ret |-> FALSE, state |-> state]

\* OutcomeOf, were the first comparison 0 <= frames_completed
OutcomeOfInclusive(frames_completed, expected_frames) ==
    IF 0 <= frames_completed /\ frames_completed < expected_frames THEN "Interrupted"
    ELSE IF frames_completed = expected_frames THEN "Complete"
    ELSE "Failed"

\* the if / elif / else of PostRender
OutcomeOf(frames_completed, expected_frames) ==
    IF 0 < frames_completed /\ frames_completed < expected_frames THEN "Interrupted"
    ELSE IF frames_completed = expected_frames THEN "Complete"
    ELSE "Failed"

\* ------------------------------------------------------- on_render_event
\* What one invocation of the handler does: the two dictionaries it leaves,
\* the requests it made, and what it decided (info, kept in `last`).
Result(cr, sr, reqs, info) == [cr |-> cr, sr |-> sr, ops |-> reqs, info |-> info]

Info(event, n, result) == [NoLast EXCEPT !.event = event, !.node = n, !.result = result]

\* The except clause of on_render_event, entered with dictionary cr: the
\* error text is built with get_node_name (which may raise again), sent, and
\* the entry is dropped after a second node.path().
ExceptionHandler(cr, sr, event, n, h, chat, net, mid) ==
    IF get_node_name_raises(h)
    THEN Result(cr, sr, <<>>, Info(event, n, "propagated"))
    ELSE LET s == send_telegram_message("error", chat, net, mid)
         IN  IF h.path
             THEN Result(cr, sr, s.ops, Info(event, n, "propagated"))
             ELSE Result(IF n \in DOMAIN cr THEN Without(cr, n) ELSE cr, sr, s.ops,
                         Info(event, n, "error"))

\* event_type == PreRender, after node.path() returned
PreRenderBody(cr, sr, n, t, h, trange, f1, f2, chat, net, mid) ==
    IF n \in DOMAIN cr
    THEN Result(cr, sr, <<>>, Info("PreRender", n, "ignored"))
    ELSE LET st0 == initialize_render_state(get_sequence_range(h, trange, f1, f2), t)
             s   == send_telegram_message("started", chat, net, mid)
             st1 == IF s.id # 0 THEN [st0 EXCEPT !.message_id = s.id] ELSE st0
         IN  Result(With(cr, n, st1), sr, s.ops,
                    [Info("PreRender", n, "handled") EXCEPT
                        !.total = st1.total_frames, !.msgid = st1.message_id])

\* The progress message of PostFrame (lines 471-491), as exact fractions:
\* progress_percent = pctNum / pctDen, time_remaining = remNum / remDen.
ProgressReport(state, t) ==
    LET duration    == t - state.start_time
        frames_done == Cardinality(state.completed_frames)
        total       == state.total_frames
    IN  [elapsed |-> duration,
         frames  |-> frames_done,
         total   |-> total,
         pctNum  |-> frames_done * 100,
         pctDen  |-> total,
         \* max(0, (duration / frames_done) * total - duration)
         remNum  |-> Max(0, duration * total - duration * frames_done),
         remDen  |-> frames_done]

\* ProgressOps, were the progress text sent as a new message
ProgressOpsSendsNew(state, editRaises) ==
    <<Op("sendMessage", "progress", "a", 1, "ok")>>

\* if state['message_id']: edit the tracked message with the progress text
ProgressOps(state, editRaises) ==
    IF state.message_id # 0
    THEN <<EditMessage("progress", state.message_id, editRaises)>>
    ELSE <<>>

\* event_type == PostFrame, after node.path() returned
PostFrameBody(cr, sr, n, t, frame_time, h, chat, net, mid, editRaises) ==
    IF n \notin DOMAIN cr
    THEN Result(cr, sr, <<>>, Info("PostFrame", n, "ignored"))
    ELSE LET st0 == [cr[n] EXCEPT
                        !.completed_frames = AddFrame(@, frame_time)]
             sup == should_update_progress(st0, t)
             st1 == sup.state
             cr1 == With(cr, n, st1)
             rep == ProgressReport(st1, t)
             info == [Info("PostFrame", n, "handled") EXCEPT
                         !.frame = frame_time, !.frames = rep.frames,
                         !.total = rep.total, !.msgid = st1.message_id]
         IN  IF ~sup.ret
             THEN Result(cr1, sr, <<>>, info)
             ELSE IF st1.total_frames = 0
                  \* frames_done / total_frames: ZeroDivisionError
                  THEN LET r == ExceptionHandler(cr1, sr, "PostFrame", n, h, chat, net, mid)
                       IN  [r EXCEPT !.info.frame = frame_time]
                  ELSE Result(cr1, sr, ProgressOps(st1, editRaises),
                              [info EXCEPT !.reported = TRUE, !.elapsed = rep.elapsed,
                                           !.pctNum = rep.pctNum, !.pctDen = rep.pctDen,
                                           !.remNum = rep.remNum, !.remDen = rep.remDen])

\* The preview of a complete render (lines 539-557).  Evaluating the output
\* path raises when node.type() or the picture parameter raises, or when no
\* output path is found (pictureOk false); the except clause then logs and
\* send_telegram_animation is not called.  Otherwise it is called once and
\* returns previewRes.
PreviewOps(h, pictureOk, previewRes) ==
    IF h.type \/ h.parm \/ ~pictureOk
    THEN <<>>
    ELSE <<Op("send_telegram_animation", "preview", "CHAT_ID", 0, previewRes)>>

\* 0 < frames_completed < expected_frames (lines 511-535): no else branch
InterruptedOps(state, chat, net, mid, editRaises) ==
    EditOrSend("interrupted", state.message_id, FALSE, chat, net, mid, editRaises)

\* CompleteOps, were the preview built after the summary
CompleteOpsPreviewLast(state, h, pictureOk, previewRes, chat, net, mid, editRaises) ==
    EditOrSend("complete", state.message_id, TRUE, chat, net, mid, editRaises)
    \o PreviewOps(h, pictureOk, previewRes)
    \o send_telegram_message("finished", chat, net, mid).ops

\* frames_completed == expected_frames (lines 536-588), after the statistics
CompleteOps(state, h, pictureOk, previewRes, chat, net, mid, editRaises) ==
    PreviewOps(h, pictureOk, previewRes)
    \o EditOrSend("complete", state.message_id, TRUE, chat, net, mid, editRaises)
    \o send_telegram_message("finished", chat, net, mid).ops

\* else (lines 589-614)
FailedOps(state, chat, net, mid, editRaises) ==
    EditOrSend("failed", state.message_id, TRUE, chat, net, mid, editRaises)

\* event_type == PostRender, after node.path() returned
PostRenderBody(cr, sr, n, t, h, pictureOk, previewRes, chat, net, mid, editRaises) ==
    IF n \notin DOMAIN cr
    THEN Result(cr, sr, <<>>, Info("PostRender", n, "ignored"))
    ELSE LET state            == cr[n]
             render_duration  == t - state.start_time
             frames_completed == Cardinality(state.completed_frames)
             expected_frames  == state.total_frames
             outcome          == OutcomeOf(frames_completed, expected_frames)
             info == [Info("PostRender", n, "handled") EXCEPT
                         !.outcome = outcome, !.frames = frames_completed,
                         !.total = expected_frames, !.msgid = state.message_id,
                         !.elapsed = render_duration]
         IN  CASE outcome = "Interrupted" ->
                    Result(Without(cr, n), sr,
                           InterruptedOps(state, chat, net, mid, editRaises), info)
               [] outcome = "Complete" ->
                    LET sr1   == update_render_stats(sr, n, render_duration,
                                                     frames_completed)
                        stats == get_render_stats(sr1, n)
                    IN  IF stats.none
                        \* stats['average'] of None: TypeError
                        THEN ExceptionHandler(cr, sr1, "PostRender", n, h, chat, net, mid)
                        ELSE Result(Without(cr, n), sr1,
                                    CompleteOps(state, h, pictureOk, previewRes, chat, net,
                                                mid, editRaises),
                                    \* f"Total frames rendered: {stats['total_renders']}"
                                    [info EXCEPT !.shownTotal = stats.total_renders])
               [] OTHER ->
                    Result(Without(cr, n), sr,
                           FailedOps(state, chat, net, mid, editRaises), info)

\* The inputs of one invocation: which host calls raise, what the network
\* does, and what the node's parameters evaluate to.
\* Host calls that raise during the invocation (TRUE: the call raises): none,
\* node.name(), node.type() and parameter evaluation, node.path(), all.
HostModes ==
    { [path |-> FALSE, name |-> FALSE, type |-> FALSE, parm |-> FALSE],
      [path |-> FALSE, name |-> TRUE,  type |-> FALSE, parm |-> FALSE],
      [path |-> FALSE, name |-> FALSE, type |-> TRUE,  parm |-> TRUE],
      [path |-> TRUE,  name |-> FALSE, type |-> FALSE, parm |-> FALSE],
      [path |-> TRUE,  name |-> TRUE,  type |-> TRUE,  parm |-> TRUE] }

\* trange, f1, f2 of the node (f1, f2 in halves of a frame)
ParmValues ==
    { [trange |-> -1, f1 |-> 2, f2 |-> 4],
      [trange |-> 0,  f1 |-> 2, f2 |-> 4],
      [trange |-> 1,  f1 |-> 2, f2 |-> 4],
      [trange |-> 1,  f1 |-> 3, f2 |-> 2] }

\* what a post to each chat does during one invocation
NetOutcomes ==
    { [c \in ChatIds |-> "ok"],
      [c \in ChatIds |-> IF c = "a" THEN "notok" ELSE "ok"],
      [c \in ChatIds |-> IF c = "a" THEN "raise" ELSE "notok"] }

\* an invocation's inputs; an event reads only some of them
DefaultIn ==
    [h |-> [path |-> FALSE, name |-> FALSE, type |-> FALSE, parm |-> FALSE],
     net |-> [c \in ChatIds |-> "ok"], mid |-> 1, editRaises |-> FALSE,
     parms |-> [trange |-> 0, f1 |-> 2, f2 |-> 2], frame_time |-> 2,
     pictureOk |-> TRUE, previewRes |-> "sent"]

\* on_render_event, were NOTIFICATIONS_ENABLED not looked at
on_render_event_no_gate(cr, sr, enabled, chat, event, n, t, in) ==
    IF in.h.path
    THEN ExceptionHandler(cr, sr, event, n, in.h, chat, in.net, in.mid)
    ELSE CASE event = "PreRender" ->
                PreRenderBody(cr, sr, n, t, in.h, in.parms.trange, in.parms.f1,
                              in.parms.f2, chat, in.net, in.mid)
           [] event = "PostFrame" ->
                PostFrameBody(cr, sr, n, t, in.frame_time, in.h, chat, in.net,
                              in.mid, in.editRaises)
           [] event = "PostRender" ->
                PostRenderBody(cr, sr, n, t, in.h, in.pictureOk, in.previewRes,
                               chat, in.net, in.mid, in.editRaises)

\* on_render_event(node, event_type, frame_time) at time t
on_render_event(cr, sr, enabled, chat, event, n, t, in) ==
    IF ~enabled
    THEN Result(cr, sr, <<>>, Info(event, n, "disabled"))
    ELSE IF in.h.path
         \* node_path = node.path() raises inside the try
         THEN ExceptionHandler(cr, sr, event, n, in.h, chat, in.net, in.mid)
         ELSE CASE event = "PreRender" ->
                     PreRenderBody(cr, sr, n, t, in.h, in.parms.trange, in.parms.f1,
                                   in.parms.f2, chat, in.net, in.mid)
                [] event = "PostFrame" ->
                     PostFrameBody(cr, sr, n, t, in.frame_time, in.h, chat, in.net,
                                   in.mid, in.editRaises)
                [] event = "PostRender" ->
                     PostRenderBody(cr, sr, n, t, in.h, in.pictureOk, in.previewRes,
                                    chat, in.net, in.mid, in.editRaises)

\* --------------------------------------------------------------- callbacks
\* remove_all_callbacks(): CALLBACK_REGISTRY.clear()
remove_all_callbacks == {}

\* setup_render_callbacks(): remove_all_callbacks(), then every render node
\* of the scene is registered
setup_render_callbacks(nodes) == remove_all_callbacks \cup nodes

EmptyDict == [x \in {} |-> 0]

\* ------------------------------------------------------------------- Init
\* The state after the module has been imported (lines 13-41, 1017-1024):
\* notifications disabled, nothing tracked, callbacks registered.
Init ==
    /\ NOTIFICATIONS_ENABLED = FALSE
    /\ SESSION_RENDERS = EmptyDict
    /\ CURRENT_RENDERS = EmptyDict
    /\ CHAT_ID \in ChatConfigs
    /\ BOT_TOKEN = "t1"
    /\ CONFIG_FILE = [BOT_TOKEN |-> BOT_TOKEN, CHAT_IDS |-> CHAT_ID.ids]
    /\ now = 0
    /\ scene = {"n1"}
    /\ CALLBACK_REGISTRY = setup_render_callbacks(scene)
    /\ hostRender = [n \in Nodes |-> 0]
    /\ hostStarted = [n \in Nodes |-> 0]
    /\ hostFrames = [n \in Nodes |-> 0]
    /\ audit = EmptyDict
    /\ ops = <<>>
    /\ last = NoLast

\* ---------------------------------------------------------------- actions
IsProgressEdit(op) == op.kind = "editMessageText" /\ op.text = "progress"

\* The host calls on_render_event(node, event, frame_time) for the render
\* number rid of node n.  The observer's audit record follows the entry: it
\* is opened when the entry is created (noting the host's render and the
\* message id PreRender left), notes every frame time that reaches
\* completed_frames.add and every progress edit, and goes with the entry.
\* last.distinct is the observer's count of distinct frame times noted
\* before this event.
Deliver(event, n, rid, in) ==
    \E r \in { on_render_event(CURRENT_RENDERS, SESSION_RENDERS, NOTIFICATIONS_ENABLED,
                                CHAT_ID, event, n, now, in) } :
    LET edited == \E i \in 1..Len(r.ops) : IsProgressEdit(r.ops[i])
        added  == event = "PostFrame" /\ r.info.result = "handled"
    IN  /\ CURRENT_RENDERS' = r.cr
        /\ SESSION_RENDERS' = r.sr
        /\ ops' = r.ops
        /\ last' = [r.info EXCEPT
                       !.gap = IF edited THEN now - audit[n].lastReport ELSE 0,
                       !.distinct = IF n \in DOMAIN audit
                                    THEN Cardinality(Range(audit[n].frameLog))
                                    ELSE 0]
        /\ audit' = [x \in DOMAIN r.cr |->
                       IF x \notin DOMAIN CURRENT_RENDERS
                       THEN [render |-> rid, msgid |-> r.cr[x].message_id,
                             lastReport |-> now, reports |-> 0, frameLog |-> <<>>]
                       ELSE IF x = n /\ added
                            THEN [audit[x] EXCEPT
                                     !.frameLog = Append(@, in.frame_time),
                                     !.lastReport = IF edited THEN now ELSE @,
                                     !.reports = IF edited THEN @ + 1 ELSE @]
                            ELSE audit[x]]
        /\ UNCHANGED <<NOTIFICATIONS_ENABLED, CALLBACK_REGISTRY, CHAT_ID, BOT_TOKEN,
                       CONFIG_FILE, now, scene>>

\* The inputs enumerated when several nodes render side by side: a host
\* call raises or none does, the posts succeed or fail, the preview is sent.
SideBySide(in) ==
    /\ in.h.name = in.h.path /\ in.h.type = in.h.path
    /\ in.net["a"] # "notok"
    /\ in.parms.trange # -1
    /\ in.pictureOk /\ in.previewRes = "sent" /\ ~in.editRaises

\* Inputs that are never read are kept at their default: nothing more is
\* read once node.path() has raised, and the result of the preview is read
\* only when its output path was found.
Read(in) ==
    /\ in.h.path => (~in.editRaises /\ in.pictureOk /\ in.previewRes = "sent")
    /\ (in.h.type \/ in.h.parm) => in.pictureOk
    /\ (in.h.type \/ in.h.parm \/ ~in.pictureOk) => in.previewRes = "sent"

\* The inputs worth telling apart: a disabled handler returns before it
\* reads any of them.
InputsOf(S) ==
    IF ~NOTIFICATIONS_ENABLED THEN {DefaultIn}
    ELSE IF Cardinality(scene) > 1 THEN { in \in S : Read(in) /\ SideBySide(in) }
    ELSE { in \in S : Read(in) }

\* The host starts a render of node n and raises PreRender.
PreRender(n) ==
    /\ hostRender[n] = 0
    /\ hostStarted[n] < MaxRenders
    /\ \E in \in InputsOf({ [DefaultIn EXCEPT !.h = h, !.net = net, !.mid = mid,
                                                !.parms = parms] :
                                h \in HostModes, net \in NetOutcomes, mid \in MsgIds,
                                parms \in ParmValues }) :
          Deliver("PreRender", n, hostStarted[n] + 1, in)
    /\ hostRender' = [hostRender EXCEPT ![n] = hostStarted[n] + 1]
    /\ hostStarted' = [hostStarted EXCEPT ![n] = @ + 1]
    /\ hostFrames' = [hostFrames EXCEPT ![n] = 0]

\* The host has written a frame of the render in progress and raises PostFrame.
PostFrame(n) ==
    /\ hostRender[n] # 0
    /\ hostFrames[n] < MaxFrameEvents
    /\ \E frame_time \in FrameTimes :
          \E in \in InputsOf({ [DefaultIn EXCEPT !.h = h, !.net = net, !.mid = mid,
                                                !.editRaises = editRaises] :
                                h \in HostModes, net \in NetOutcomes, mid \in MsgIds,
                                editRaises \in BOOLEAN }) :
             Deliver("PostFrame", n, hostRender[n], [in EXCEPT !.frame_time = frame_time])
    /\ hostFrames' = [hostFrames EXCEPT ![n] = @ + 1]
    /\ UNCHANGED <<hostRender, hostStarted>>

\* The host ends the render in progress (finished, stopped or failed) and
\* raises PostRender.
PostRender(n) ==
    /\ hostRender[n] # 0
    /\ \E in \in InputsOf({ [DefaultIn EXCEPT !.h = h, !.net = net, !.mid = mid,
                                                !.editRaises = editRaises,
                                                !.pictureOk = pictureOk,
                                                !.previewRes = previewRes] :
                                h \in HostModes, net \in NetOutcomes, mid \in MsgIds,
                                editRaises \in BOOLEAN, pictureOk \in BOOLEAN,
                                previewRes \in {"sent", "failed"} }) :
          Deliver("PostRender", n, hostRender[n], in)
    /\ hostRender' = [hostRender EXCEPT ![n] = 0]
    /\ UNCHANGED <<hostStarted, hostFrames>>

\* TelegramNotificationsUI.toggle_notifications
toggle_notifications ==
    /\ NOTIFICATIONS_ENABLED' = ~NOTIFICATIONS_ENABLED
    /\ CALLBACK_REGISTRY' = IF NOTIFICATIONS_ENABLED'
                            THEN setup_render_callbacks(scene)
                            ELSE remove_all_callbacks
    /\ ops' = <<>>
    /\ last' = Info("toggle", "none", "handled")
    /\ UNCHANGED <<SESSION_RENDERS, CURRENT_RENDERS, CHAT_ID, BOT_TOKEN, CONFIG_FILE, now,
                   scene, hostRender, hostStarted, hostFrames, audit>>

\* A second passes.  Idle time between renders is not counted: the code
\* reads the clock only in on_render_event and uses only differences.
Tick ==
    /\ now < MaxTime
    /\ \E n \in scene : hostRender[n] # 0
    /\ now' = now + 1
    /\ ops' = <<>>
    /\ last' = Info("tick", "none", "handled")
    /\ UNCHANGED <<NOTIFICATIONS_ENABLED, SESSION_RENDERS, CURRENT_RENDERS,
                   CALLBACK_REGISTRY, CHAT_ID, BOT_TOKEN, CONFIG_FILE, scene, hostRender,
                   hostStarted, hostFrames, audit>>

Next ==
    \/ \E n \in scene : PreRender(n)
    \/ \E n \in scene : PostFrame(n)
    \/ \E n \in scene : PostRender(n)
    \/ toggle_notifications
    \/ Tick

Spec == Init /\ [][Next]_vars

\* ------------------------------------------------------------ the UI panel
\* What the user types into the two dialogs of configure_telegram_bot: a
\* token, and chat ids as the pieces between the commas.
Tokens == {"t1", "t2"}
ChatInputs == { <<"a", " b">>, <<"b">> }

\* cid.strip() of a typed piece
strip(cid) == IF cid = " b" THEN "b" ELSE cid

\* TelegramNotificationsUI.configure_telegram_bot with both dialogs accepted
\* and non-empty: the configuration is written to CONFIG_FILE.  No global
\* is assigned.
configure_telegram_bot ==
    /\ \E bot_token \in Tokens, chat_id \in ChatInputs :
          CONFIG_FILE' = [BOT_TOKEN |-> bot_token,
                          CHAT_IDS |-> [i \in 1..Len(chat_id) |-> strip(chat_id[i])]]
    /\ ops' = <<>>
    /\ last' = Info("configure", "none", "handled")
    /\ UNCHANGED <<NOTIFICATIONS_ENABLED, SESSION_RENDERS, CURRENT_RENDERS,
                   CALLBACK_REGISTRY, CHAT_ID, BOT_TOKEN, now, scene, hostRender,
                   hostStarted, hostFrames, audit>>

\* TelegramNotificationsUI.test_telegram_connection: one
\* send_telegram_message, whatever NOTIFICATIONS_ENABLED is
test_telegram_connection ==
    /\ \E net \in NetOutcomes, mid \in MsgIds :
          \E s \in { send_telegram_message("test", CHAT_ID, net, mid) } :
             /\ ops' = s.ops
             /\ last' = [Info("test", "none", IF s.id # 0 THEN "sent" ELSE "failed")
                            EXCEPT !.msgid = s.id]
    /\ UNCHANGED <<NOTIFICATIONS_ENABLED, SESSION_RENDERS, CURRENT_RENDERS,
                   CALLBACK_REGISTRY, CHAT_ID, BOT_TOKEN, CONFIG_FILE, now, scene,
                   hostRender, hostStarted, hostFrames, audit>>

\* A session in which the user also works with the panel; the host renders
\* each node at most MaxRendersUI times.
MaxRendersUI == 1
BoundUI == \A n \in Nodes : hostStarted[n] <= MaxRendersUI

NextUI ==
    \/ \E n \in scene : PreRender(n) /\ BoundUI'
    \/ \E n \in scene : PostFrame(n)
    \/ \E n \in scene : PostRender(n)
    \/ toggle_notifications
    \/ Tick
    \/ configure_telegram_bot
    \/ test_telegram_connection

SpecUI == Init /\ [][NextUI]_vars

\* ------------------------------------------- nodes rendering side by side
\* A scene of two render nodes whose renders overlap; the host renders each
\* node at most MaxRendersEach times and the clock runs to MaxTimeEach.  The
\* nodes are interchangeable: n1 names the one whose render starts first.
MaxRendersEach == 1
MaxTimeEach == 2
MaxFrameEventsEach == 1

InitConcurrent ==
    /\ NOTIFICATIONS_ENABLED = FALSE
    /\ SESSION_RENDERS = EmptyDict
    /\ CURRENT_RENDERS = EmptyDict
    /\ CHAT_ID \in ChatConfigs
    /\ BOT_TOKEN = "t1"
    /\ CONFIG_FILE = [BOT_TOKEN |-> BOT_TOKEN, CHAT_IDS |-> CHAT_ID.ids]
    /\ now = 0
    /\ scene = Nodes
    /\ CALLBACK_REGISTRY = setup_render_callbacks(scene)
    /\ hostRender = [n \in Nodes |-> 0]
    /\ hostStarted = [n \in Nodes |-> 0]
    /\ hostFrames = [n \in Nodes |-> 0]
    /\ audit = EmptyDict
    /\ ops = <<>>
    /\ last = NoLast

BoundConcurrent ==
    /\ now <= MaxTimeEach
    /\ \A n \in Nodes : hostStarted[n] <= MaxRendersEach /\ hostFrames[n] <= MaxFrameEventsEach
    /\ hostStarted["n2"] <= hostStarted["n1"]

NextConcurrent ==
    \/ \E n \in scene : PreRender(n) /\ BoundConcurrent'
    \/ \E n \in scene : PostFrame(n) /\ BoundConcurrent'
    \/ \E n \in scene : PostRender(n)
    \/ toggle_notifications
    \/ Tick /\ BoundConcurrent'

SpecConcurrent == InitConcurrent /\ [][NextConcurrent]_vars

\* ================================================================ claims
IsEdit(op) == op.kind = "editMessageText"
IsSend(op) == op.kind = "sendMessage"
IsPreview(op) == op.kind = "send_telegram_animation"
OpIndexes == 1..Len(ops)
Tracked == DOMAIN CURRENT_RENDERS
Handled(event) == last.event = event /\ last.result = "handled"

\* the text each outcome is reported with
OutcomeText(outcome) ==
    CASE outcome = "Complete" -> "complete"
      [] outcome = "Interrupted" -> "interrupted"
      [] OTHER -> "failed"

\* C1: for every tracked node path, the number of distinct completed frames
\* is at most total_frames.  The code never compares the two: PostFrame adds
\* whatever frame time the host supplies.
C1_FrameSetWithinTotal ==
    \A n \in Tracked :
        Cardinality(CURRENT_RENDERS[n].completed_frames) <= CURRENT_RENDERS[n].total_frames

\* C2: a node path is a key of CURRENT_RENDERS only while the host's render
\* that created the entry is in progress.  A PostRender delivered while
\* notifications are disabled (or whose node.path() raises) leaves the entry.
C2_EntryOnlyDuringItsRender ==
    \A n \in Tracked : hostRender[n] # 0 /\ audit[n].render = hostRender[n]

\* C3 as stated: PreRender creates at most one message, message_id keeps the
\* value PreRender left, and PostFrame handling makes only edits of that
\* message id and never sends a new message.
C3_SingleNotificationNoSend ==
    /\ \A n \in Tracked : CURRENT_RENDERS[n].message_id = audit[n].msgid
    /\ last.event = "PreRender" =>
          Cardinality({ i \in OpIndexes : IsSend(ops[i]) /\ ops[i].res = "ok" }) <= 1
    /\ last.event = "PostFrame" =>
          \A i \in OpIndexes :
              IsProgressEdit(ops[i]) /\ last.msgid # 0 /\ ops[i].mid = last.msgid

\* C3 as amended: PreRender creates at most one message, message_id keeps
\* the value PreRender left, every progress report of PostFrame is an edit
\* of that message id, and PostFrame handling sends a new message only as
\* the error report of an exception raised while handling the event.
C3_SingleNotification ==
    /\ \A n \in Tracked : CURRENT_RENDERS[n].message_id = audit[n].msgid
    /\ last.event = "PreRender" =>
          Cardinality({ i \in OpIndexes : IsSend(ops[i]) /\ ops[i].res = "ok" }) <= 1
    /\ last.event = "PostFrame" =>
          \A i \in OpIndexes :
              \/ IsProgressEdit(ops[i]) /\ last.msgid # 0 /\ ops[i].mid = last.msgid
              \/ /\ IsSend(ops[i]) /\ ops[i].text = "error"
                 /\ last.result \in {"error", "propagated"}

\* a second progress report of one render has just been made, as an edit
C3_Witness ==
    /\ Handled("PostFrame")
    /\ Len(ops) = 1 /\ IsProgressEdit(ops[1])
    /\ \E n \in Tracked : audit[n].reports = 2 /\ audit[n].msgid = ops[1].mid

\* C4: on PostRender of a tracked node the outcome is Complete iff the
\* number of completed frames equals total_frames, Interrupted iff it lies
\* strictly between 0 and total_frames, and only that outcome's text is used.
C4_OutcomeChoice ==
    Handled("PostRender") =>
        /\ last.outcome \in {"Complete", "Interrupted", "Failed"}
        /\ (last.outcome = "Complete") <=> (last.frames = last.total)
        /\ (last.outcome = "Interrupted") <=> (0 < last.frames /\ last.frames < last.total)
        /\ \A i \in OpIndexes :
              ops[i].text \in {"complete", "interrupted", "failed"}
                  => ops[i].text = OutcomeText(last.outcome)

\* an interrupted render: one of two frames done, reported as interrupted
C4_Witness ==
    /\ Handled("PostRender")
    /\ last.outcome = "Interrupted" /\ last.frames = 1 /\ last.total = 2
    /\ \E i \in OpIndexes : ops[i].text = "interrupted"

\* C5: handling the PostRender of a tracked render makes at least one attempt
\* (an edit or a send) to deliver the outcome text.  The Interrupted branch
\* has no else: with message_id None nothing is attempted.
C5_OutcomeDelivered ==
    Handled("PostRender") =>
        \E i \in OpIndexes :
            /\ IsEdit(ops[i]) \/ IsSend(ops[i])
            /\ ops[i].text = OutcomeText(last.outcome)

\* C6: no exception leaves on_render_event.  The except clause calls
\* node.path() again (and get_node_name) outside any try.
C6_NeverFatal == last.result # "propagated"

\* C7: for a tracked render, completed_frames is the set of the frame times
\* delivered by PostFrame, in whatever order and however often each came,
\* and PostRender decides the outcome on the size of that set.
C7_FramesAreASet ==
    /\ \A n \in Tracked :
          CURRENT_RENDERS[n].completed_frames = Range(audit[n].frameLog)
    /\ Handled("PostRender") =>
          /\ last.frames = last.distinct
          /\ last.outcome = OutcomeOf(last.distinct, last.total)

\* the frame times came out of order, the later frame first
C7_Witness ==
    \E n \in Tracked :
        /\ Len(audit[n].frameLog) = 2
        /\ audit[n].frameLog[1] > audit[n].frameLog[2]
        /\ Cardinality(CURRENT_RENDERS[n].completed_frames) = 2

\* C8: a PostFrame issues a progress edit only if at least update_interval
\* seconds have passed since the previous progress edit of that entry, or
\* since the PreRender that created it.
C8_ProgressPeriodic ==
    (last.event = "PostFrame" /\ \E i \in OpIndexes : IsProgressEdit(ops[i]))
        => last.gap >= update_interval

\* two consecutive progress edits of one render, update_interval apart
C8_Witness ==
    /\ Handled("PostFrame")
    /\ \E i \in OpIndexes : IsProgressEdit(ops[i])
    /\ last.gap = update_interval
    /\ \E n \in Tracked : audit[n].reports = 2

\* C9: in every progress report the percentage is 100 * frames_done /
\* total_frames and lies between 0 and 100, the remaining time is
\* max(0, elapsed * total_frames / frames_done - elapsed), never negative,
\* and 0 when frames_done equals total_frames.  With more distinct frame
\* times than total_frames (C1) the percentage exceeds 100.
C9_ProgressMath ==
    last.reported =>
        /\ last.pctDen > 0
        /\ last.pctNum * last.total = 100 * last.frames * last.pctDen
        /\ 0 <= last.pctNum /\ last.pctNum <= 100 * last.pctDen
        /\ last.remDen > 0 /\ last.remNum >= 0
        /\ last.remNum * last.frames
              = Max(0, last.elapsed * last.total - last.elapsed * last.frames) * last.remDen
        /\ (last.frames = last.total) => last.remNum = 0

\* C10: send_telegram_animation is called only while handling a PostRender
\* whose outcome is Complete, once, and before the summary is edited or sent
\* and before the RENDER FINISHED message is sent.
C10_PreviewOnlyOnComplete ==
    \A i \in OpIndexes :
        IsPreview(ops[i]) =>
            /\ Handled("PostRender") /\ last.outcome = "Complete"
            /\ \A j \in OpIndexes : IsPreview(ops[j]) => j = i
            /\ \A j \in OpIndexes : ops[j].text \in {"complete", "finished"} => i < j

\* a complete render: the preview, then the summary edit, then RENDER FINISHED
C10_Witness ==
    /\ Handled("PostRender") /\ last.outcome = "Complete" /\ last.total = 2
    /\ Len(ops) = 3
    /\ IsPreview(ops[1])
    /\ IsEdit(ops[2]) /\ ops[2].text = "complete"
    /\ IsSend(ops[3]) /\ ops[3].text = "finished"

\* the entry of key k of dictionary d, as a set: empty when there is none
EntryOf(d, k) == IF k \in DOMAIN d THEN {d[k]} ELSE {}

RenderEvents == {"PreRender", "PostFrame", "PostRender"}

\* C11: handling any event of node a leaves the CURRENT_RENDERS entry and
\* the SESSION_RENDERS entry of every other node b as they were (present or
\* absent, and with the same content), in every interleaving of the events
\* of two nodes that render side by side.
C11_PerNodeIsolation ==
    [][\A a \in Nodes, b \in Nodes :
          (a # b /\ last'.node = a /\ last'.event \in RenderEvents) =>
              /\ EntryOf(CURRENT_RENDERS', b) = EntryOf(CURRENT_RENDERS, b)
              /\ EntryOf(SESSION_RENDERS', b) = EntryOf(SESSION_RENDERS, b)]_vars

\* n1's render has just completed and entered the statistics while n2's
\* render is tracked with a frame done
C11_Witness ==
    /\ Handled("PostRender") /\ last.node = "n1" /\ last.outcome = "Complete"
    /\ "n1" \in DOMAIN SESSION_RENDERS
    /\ "n2" \in Tracked /\ CURRENT_RENDERS["n2"].completed_frames # {}

\* C12: with a list of chat ids configured, every message that
\* send_telegram_message posts is posted to every chat id of the list,
\* whatever the posts to the earlier ids did.  The loop returns at the first
\* post whose response is ok (lines 212-213).
C12_PostsToEveryChat ==
    CHAT_ID.list =>
        \A i \in OpIndexes :
            IsSend(ops[i]) =>
                \A c \in Range(CHAT_ID.ids) :
                    \E j \in OpIndexes :
                        IsSend(ops[j]) /\ ops[j].text = ops[i].text /\ ops[j].chat = c

\* C13: once the module has been initialized, the first thing the host does
\* being a PreRender of a registered node, a 'Render Started' message is
\* posted.  NOTIFICATIONS_ENABLED is False after initialization (line 14)
\* and only toggle_notifications changes it.
C13_ActiveAfterInit ==
    [][(last = NoLast /\ last'.event = "PreRender" /\ last'.node \in CALLBACK_REGISTRY)
          => \E i \in 1..Len(ops') : IsSend(ops'[i]) /\ ops'[i].text = "started"]_vars

\* C14: every send is made with the token and to chat ids of the
\* configuration last saved to CONFIG_FILE, the test message included.  The
\* url is built from the global BOT_TOKEN and the chat ids are read from the
\* global CHAT_ID, which configure_telegram_bot does not assign.
C14_SendsUseSavedConfig ==
    \A i \in OpIndexes :
        IsSend(ops[i]) =>
            /\ BOT_TOKEN = CONFIG_FILE.BOT_TOKEN
            /\ ops[i].chat \in Range(CONFIG_FILE.CHAT_IDS)

\* the step is on_render_event in one of the three cases of C15: disabled;
\* PreRender of a node already tracked; PostFrame or PostRender of a node
\* not tracked
NoOpCase ==
    /\ last'.event \in RenderEvents
    /\ \/ ~NOTIFICATIONS_ENABLED
       \/ last'.event = "PreRender" /\ last'.node \in DOMAIN CURRENT_RENDERS
       \/ last'.event \in {"PostFrame", "PostRender"}
             /\ last'.node \notin DOMAIN CURRENT_RENDERS

\* C15 as stated: in each of the three cases on_render_event leaves
\* CURRENT_RENDERS and SESSION_RENDERS unchanged and sends or edits nothing.
C15_NoOpCasesSilent ==
    [][NoOpCase => (UNCHANGED <<CURRENT_RENDERS, SESSION_RENDERS>> /\ ops' = <<>>)]_vars

\* C15 as amended: in each of the three cases on_render_event leaves
\* CURRENT_RENDERS and SESSION_RENDERS unchanged, and it sends or edits
\* nothing unless notifications are enabled and node.path() raises; the
\* only requests are then the posts of the except clause's error report.
C15_NoOpCases ==
    [][NoOpCase =>
          /\ UNCHANGED <<CURRENT_RENDERS, SESSION_RENDERS>>
          /\ \/ ops' = <<>>
             \/ /\ NOTIFICATIONS_ENABLED /\ last'.result = "propagated"
                /\ \A i \in 1..Len(ops') : IsSend(ops'[i]) /\ ops'[i].text = "error"]_vars

\* with notifications enabled, the PreRender of a node that is already
\* tracked has just been ignored
C15_Witness ==
    /\ NOTIFICATIONS_ENABLED
    /\ last.event = "PreRender" /\ last.result = "ignored"
    /\ last.node \in Tracked /\ ops = <<>>

\* C16: the RENDER FAILED outcome ('No frames were completed') is reported
\* at PostRender only when completed_frames is empty.  The else branch of
\* line 589 is also taken with more completed frames than total_frames (C1).
C16_FailedMeansNoFrames ==
    (Handled("PostRender") /\ last.outcome = "Failed") => last.frames = 0

\* the statistics of node n in dictionary sr, zero when there are none
StatsOf(sr, n) ==
    IF n \in DOMAIN sr THEN sr[n]
    ELSE [times |-> <<>>, total_renders |-> 0, frames_rendered |-> 0, total_time |-> 0]

\* C17: SESSION_RENDERS[n] changes only in a PostRender of n whose outcome
\* is Complete; that step adds 1 to total_renders, the number of completed
\* frames to frames_rendered and the render duration to total_time; steps
\* with outcome Interrupted or Failed, or that end in the except clause,
\* leave SESSION_RENDERS as it was.
C17_StatsOnlyOnComplete ==
    [][\A n \in Nodes :
          LET before   == StatsOf(SESSION_RENDERS, n)
              after    == StatsOf(SESSION_RENDERS', n)
              complete == /\ last'.event = "PostRender" /\ last'.node = n
                          /\ last'.result = "handled" /\ last'.outcome = "Complete"
          IN  /\ EntryOf(SESSION_RENDERS', n) # EntryOf(SESSION_RENDERS, n) => complete
              /\ complete =>
                    /\ n \in DOMAIN CURRENT_RENDERS /\ n \in DOMAIN SESSION_RENDERS'
                    /\ after.total_renders = before.total_renders + 1
                    /\ after.frames_rendered = before.frames_rendered
                          + Cardinality(CURRENT_RENDERS[n].completed_frames)
                    /\ after.total_time = before.total_time
                          + (now - CURRENT_RENDERS[n].start_time)
              /\ (\/ last'.outcome \in {"Interrupted", "Failed"}
                  \/ last'.result \in {"error", "propagated"})
                    => UNCHANGED SESSION_RENDERS]_vars

\* the second complete render of a node, of two frames after one of one
\* frame, has just entered the statistics
C17_Witness ==
    /\ Handled("PostRender") /\ last.outcome = "Complete" /\ last.frames = 2
    /\ last.node \in DOMAIN SESSION_RENDERS
    /\ SESSION_RENDERS[last.node].total_renders = 2
    /\ SESSION_RENDERS[last.node].frames_rendered = 3
    /\ SESSION_RENDERS[last.node].total_time > 0

\* C18: the value the Render Complete message shows as 'Total frames
\* rendered' is the node's frames_rendered counter.  The message shows
\* stats['total_renders'] (line 566), the number of complete renders.
C18_TotalFramesShown ==
    (Handled("PostRender") /\ last.outcome = "Complete") =>
        /\ last.node \in DOMAIN SESSION_RENDERS
        /\ last.shownTotal = SESSION_RENDERS[last.node].frames_rendered
====
